---- MODULE Spec2Model ----
\* Model of the to-do web application of src/main.py: the Users and Tasks
\* tables, the login session of one browser, and one action per route.
EXTENDS Integers, Sequences, FiniteSets

\* ---------------------------------------------------------------- bounds
\* Largest task id the model lets the store hand out.
MaxTaskId == 3

\* ---------------------------------------------------------------- inputs
Engines == {"sqlite", "postgresql"}
Emails == {"ann@x.org", "bob@x.org"}
Passwords == {"pw1", "pw2"}
Salts == {"saltA", "saltB"}
DisplayNames == {"Ann"}
TaskNames == {"Buy milk", "Call mum"}
TaskIds == 1..(MaxTaskId + 1)
Methods == {"GET", "POST"}

\* A form field the request does not carry.
Missing == "<missing>"
\* SQL NULL in an integer column, and a session without a "_user_id" key.
Null == 0

VARIABLES engine, users, tasks, task_id_seq, session, registered, resp

vars == <<engine, users, tasks, task_id_seq, session, registered, resp>>

\* ---------------------------------------------------------------- helpers
Range(s) == {s[i] : i \in 1..Len(s)}

SetMax(S) == CHOOSE m \in S : \A x \in S : x <= m

\* ------------------------------------------------------- password hashing
\* The PBKDF2 digest of a password under a salt, as a collision-free function
\* of both.
Pbkdf2(salt, password) == <<"sha256", salt, password>>

\* generate_password_hash: "method$salt$digest".
GeneratePasswordHash(password, salt) ==
    [method |-> "pbkdf2:sha256", salt |-> salt, digest |-> Pbkdf2(salt, password)]

CheckIgnoringPassword(pwhash, password) ==
    pwhash.method = "pbkdf2:sha256"

CheckWithFixedSalt(pwhash, password) ==
    pwhash.digest = Pbkdf2("saltA", password)

\* check_password_hash: the digest is recomputed with the stored salt.
CheckPasswordHash(pwhash, password) ==
    pwhash.digest = Pbkdf2(pwhash.salt, password)

\* ------------------------------------------------------------ Users table
NoUserByEmail(email) == {}

\* User.query.filter_by(email=...).first(): the rows with that email.
UserByEmail(email) == {u \in users : u.email = email}

\* User.query.get(int(user_id)) of the user_loader.
LoadUser(user_id) == {u \in users : u.id = user_id}

\* current_user: the loaded user, or the anonymous user (no row).
CurrentUser == IF session = Null THEN {} ELSE LoadUser(session)

AnonymousIdIsNone(cu) == FALSE

\* current_user.id raises AttributeError on the anonymous user.
CurrentUserIdFaults(cu) == cu = {}

\* The autoincremented primary key of a new Users row (no row is ever deleted).
NewUserId == Cardinality(users) + 1

\* ------------------------------------------------------------ Tasks table
TaskIdsInStore == {t.id : t \in Range(tasks)}

TaskById(task_id) == {t \in Range(tasks) : t.id = task_id}

UniquePerOwner(new_task) ==
    \A t \in Range(tasks) : t.name = new_task.name => t.owner_id # new_task.owner_id

\* unique = True on Task.name: the constraint the INSERT must satisfy.
TaskNameUnique(new_task) ==
    \A t \in Range(tasks) : t.name # new_task.name

\* The primary key the engine gives a new Tasks row: SQLite's rowid is one
\* more than the largest in the table, PostgreSQL draws from a sequence.
NewTaskId ==
    IF engine = "sqlite"
    THEN IF tasks = <<>> THEN 1 ELSE SetMax(TaskIdsInStore) + 1
    ELSE task_id_seq

OwnerIsTaskId(cu) == NewTaskId

\* current_user.id, the owner_id of a new task.
CurrentUserId(cu) == IF cu = {} THEN Null ELSE (CHOOSE u \in cu : TRUE).id

AdvanceCycle(category) ==
    IF category = "To Do" THEN "DOING"
    ELSE IF category = "DOING" THEN "DONE" ELSE "To Do"

\* The two branches of update_task.
Advance(category) == IF category = "To Do" THEN "DOING" ELSE "DONE"

\* The table after an UPDATE of one row. SQLite keeps rows in rowid order;
\* PostgreSQL writes a new row version, which a scan meets after the others.
UpdateRow(old, new) ==
    IF old = new THEN tasks
    ELSE IF engine = "sqlite"
         THEN [i \in 1..Len(tasks) |-> IF tasks[i] = old THEN new ELSE tasks[i]]
         ELSE Append(SelectSeq(tasks, LAMBDA t : t # old), new)

RowsOfOwner(rows, o) == SelectSeq(rows, LAMBDA t : t.owner_id = o)

RECURSIVE OwnersUpTo(_, _)
OwnersUpTo(rows, n) ==
    IF n = 0 THEN <<>> ELSE OwnersUpTo(rows, n - 1) \o RowsOfOwner(rows, n)

\* ORDER BY owner_id: rows of equal owner stay in scan order; NULL owners
\* come first in SQLite and last in PostgreSQL.
OrderByOwner(rows) ==
    IF engine = "sqlite"
    THEN RowsOfOwner(rows, Null) \o OwnersUpTo(rows, Cardinality(users))
    ELSE OwnersUpTo(rows, Cardinality(users)) \o RowsOfOwner(rows, Null)

\* ------------------------------------------------------------- responses
Response(status, body, flash, listing) ==
    [status |-> status, body |-> body, flash |-> flash, tasks |-> listing]

Redirect(target) == Response(302, target, "", <<>>)
RedirectFlash(target, flash) == Response(302, target, flash, <<>>)
Render(template, flash) == Response(200, template, flash, <<>>)
RenderTasks(template, listing) == Response(200, template, "", listing)
\* An exception no handler catches, or a form key that is absent.
Fault(status, error) == Response(status, error, "", <<>>)

EmailExistsFlash == "You've already signed up with that email, log in instead!"
UnknownEmailFlash == "That email does not exist, please try again."
PasswordFlash == "Password incorrect, please try again!"

\* The exceptions the handlers let through.
AnonymousHasNoId == "AttributeError: 'AnonymousUserMixin' object has no attribute 'id'"
NoneHasNoCategory == "AttributeError: 'NoneType' object has no attribute 'category'"

\* ------------------------------------------------------------------ Init
Init ==
    /\ engine \in Engines
    /\ users = {}
    /\ tasks = <<>>
    /\ task_id_seq = 1
    /\ session = Null
    /\ registered = <<>>
    /\ resp = Response(0, "", "", <<>>)

\* --------------------------------------------------------------- actions
\* GET /
home ==
    /\ resp' = RenderTasks("index.html", OrderByOwner(tasks))
    /\ UNCHANGED <<engine, users, tasks, task_id_seq, session, registered>>

\* GET, POST /add
add_task(method, task_name) ==
    /\ UNCHANGED <<engine, users, session, registered>>
    /\ IF method # "POST"
       THEN /\ resp' = Redirect("home")
            /\ UNCHANGED <<tasks, task_id_seq>>
       ELSE IF task_name = Missing
       THEN /\ resp' = Fault(400, "BadRequestKeyError")
            /\ UNCHANGED <<tasks, task_id_seq>>
       ELSE IF CurrentUserIdFaults(CurrentUser)
       THEN /\ resp' = Fault(500, AnonymousHasNoId)
            /\ UNCHANGED <<tasks, task_id_seq>>
       ELSE LET new_task == [id |-> NewTaskId, name |-> task_name,
                             category |-> "To Do",
                             owner_id |-> CurrentUserId(CurrentUser)]
            IN  /\ NewTaskId <= MaxTaskId
                /\ task_id_seq' = IF engine = "sqlite" THEN task_id_seq
                                  ELSE task_id_seq + 1
                /\ IF TaskNameUnique(new_task)
                   THEN /\ tasks' = Append(tasks, new_task)
                        /\ resp' = Redirect("home")
                   ELSE /\ tasks' = tasks
                        /\ resp' = Fault(500, "IntegrityError")

\* GET, POST /update/<task_id>
update_task(method, task_id) ==
    /\ UNCHANGED <<engine, users, task_id_seq, session, registered>>
    /\ IF TaskById(task_id) = {}
       THEN /\ resp' = Fault(500, NoneHasNoCategory)
            /\ tasks' = tasks
       ELSE LET task_to_update == CHOOSE t \in TaskById(task_id) : TRUE
                updated == [task_to_update EXCEPT
                                !.category = Advance(task_to_update.category)]
            IN  /\ tasks' = UpdateRow(task_to_update, updated)
                /\ resp' = Redirect("home")

\* GET /delete/<task_id>
delete_task(task_id) ==
    /\ UNCHANGED <<engine, users, task_id_seq, session, registered>>
    /\ IF TaskById(task_id) = {}
       THEN /\ resp' = Fault(500, "UnmappedInstanceError")
            /\ tasks' = tasks
       ELSE /\ tasks' = SelectSeq(tasks, LAMBDA t : t.id # task_id)
            /\ resp' = Redirect("home")

\* login_user(user): the session now carries the user's id.
LoginUser(user) == user.id

LogoutKeepsSession == session

\* logout_user(): the session's "_user_id" key is removed.
LogoutUser == Null

\* GET, POST /register
register(method, email, password, name, salts) ==
    /\ UNCHANGED <<engine, tasks, task_id_seq>>
    /\ IF method # "POST"
       THEN /\ resp' = Render("register.html", "")
            /\ UNCHANGED <<users, session, registered>>
       ELSE IF email = Missing
       THEN /\ resp' = Fault(400, "BadRequestKeyError")
            /\ UNCHANGED <<users, session, registered>>
       ELSE IF UserByEmail(email) # {}
       THEN /\ resp' = Render("register.html", EmailExistsFlash)
            /\ UNCHANGED <<users, session, registered>>
       ELSE IF password = Missing \/ name = Missing
       THEN /\ resp' = Fault(400, "BadRequestKeyError")
            /\ UNCHANGED <<users, session, registered>>
       ELSE IF \E u \in users : u.email = email
       THEN \* unique = True on User.email
            /\ resp' = Fault(500, "IntegrityError")
            /\ UNCHANGED <<users, session, registered>>
       ELSE \E salt \in salts :
            LET new_user == [id |-> NewUserId, email |-> email,
                             password |-> GeneratePasswordHash(password, salt),
                             name |-> name]
            IN  /\ users' = users \cup {new_user}
                /\ registered' = [e \in DOMAIN registered \cup {email} |->
                                    IF e = email THEN password ELSE registered[e]]
                /\ session' = LoginUser(new_user)
                /\ resp' = Redirect("home")

\* GET, POST /login
login(method, email, password) ==
    /\ UNCHANGED <<engine, users, tasks, task_id_seq, registered>>
    /\ IF method # "POST"
       THEN /\ resp' = Render("login.html", "")
            /\ session' = session
       ELSE IF email = Missing \/ password = Missing
       THEN /\ resp' = Fault(400, "BadRequestKeyError")
            /\ session' = session
       ELSE IF UserByEmail(email) = {}
       THEN /\ resp' = RedirectFlash("login", UnknownEmailFlash)
            /\ session' = session
       ELSE LET user == CHOOSE u \in UserByEmail(email) : TRUE
            IN  IF ~CheckPasswordHash(user.password, password)
                THEN /\ resp' = RedirectFlash("login", PasswordFlash)
                     /\ session' = session
                ELSE /\ session' = LoginUser(user)
                     /\ resp' = Redirect("home")

\* GET /logout
logout ==
    /\ session' = LogoutUser
    /\ resp' = Redirect("home")
    /\ UNCHANGED <<engine, users, tasks, task_id_seq, registered>>

\* The values of a form field: a GET carries no form.
Field(method, values) == IF method = "POST" THEN values \cup {Missing} ELSE {Missing}

\* One request, its inputs drawn from the given sets.
Requests(emails, passwords, salts, task_names) ==
    \/ home
    \/ \E m \in Methods : \E n \in Field(m, task_names) : add_task(m, n)
    \/ \E m \in Methods, i \in TaskIds : update_task(m, i)
    \/ \E i \in TaskIds : delete_task(i)
    \/ \E m \in Methods : \E e \in Field(m, emails), p \in Field(m, passwords),
          n \in Field(m, DisplayNames) : register(m, e, p, n, salts)
    \/ \E m \in Methods : \E e \in Field(m, emails), p \in Field(m, passwords) :
          login(m, e, p)
    \/ logout

\* The task board: two users with one password each, two task names.
Next == Requests(Emails, {"pw1"}, {"saltA"}, TaskNames)

Spec == Init /\ [][Next]_vars

\* The accounts: every password and salt, one task name.
AuthNext == Requests(Emails, Passwords, Salts, {"Buy milk"})

AuthSpec == Init /\ [][AuthNext]_vars

\* ---------------------------------------------------------------- claims
Rank(category) ==
    CASE category = "To Do" -> 1 [] category = "DOING" -> 2 [] category = "DONE" -> 3

AdvanceTable(category) ==
    CASE category = "To Do" -> "DOING"
      [] category = "DOING" -> "DONE"
      [] category = "DONE" -> "DONE"

UserIdOf(email, rows) == (CHOOSE u \in rows : u.email = email).id

AnyField(S) == S \cup {Missing}

\* C1: an advance moves a task To Do -> DOING, DOING -> DONE, DONE -> DONE and
\* changes nothing else of it, and no request moves the category of a task
\* backward.
C1_AdvanceForwardOnly ==
    [][ /\ \A t \in Range(tasks), u \in Range(tasks') :
             u.id = t.id => Rank(u.category) >= Rank(t.category)
        /\ \A t \in Range(tasks), m \in Methods :
             update_task(m, t.id) =>
                [t EXCEPT !.category = AdvanceTable(t.category)] \in Range(tasks')
      ]_vars

C1_Witness ==
    /\ resp = Redirect("home")
    /\ \E t \in Range(tasks) : t.category = "DONE"
    /\ \E t \in Range(tasks) : t.category = "DOING"

\* C2: a POST /add whose name some task already has creates no task and fails
\* (with the unique-constraint error when the caller is logged in), whoever
\* owns the tasks; no two tasks in the store ever have the same name.
C2_TaskNamesUnique ==
    /\ [](\A i, j \in 1..Len(tasks) : tasks[i].name = tasks[j].name => i = j)
    /\ [][ \A n \in TaskNames :
             ((\E t \in Range(tasks) : t.name = n) /\ add_task("POST", n)) =>
                /\ tasks' = tasks
                /\ resp'.status = 500
                /\ session # Null => resp' = Fault(500, "IntegrityError")
         ]_vars

C2_Witness ==
    /\ resp = Fault(500, "IntegrityError")
    /\ Len(tasks) = 1
    /\ session # Null
    /\ tasks[1].owner_id # session

\* C3: a POST /register with the email of an existing user re-renders the
\* form with the notice and creates no user; the store holds exactly one
\* user for each registered email.
C3_DuplicateEmailNotice ==
    /\ [](/\ \A u, v \in users : u.email = v.email => u = v
          /\ {u.email : u \in users} = DOMAIN registered)
    /\ [][ \A e \in Emails :
             (\E u \in users : u.email = e) =>
                \A p \in AnyField(Passwords), n \in AnyField(DisplayNames) :
                    register("POST", e, p, n, Salts) =>
                        /\ users' = users
                        /\ resp' = Render("register.html", EmailExistsFlash)
         ]_vars

C3_Witness ==
    /\ resp = Render("register.html", EmailExistsFlash)
    /\ Cardinality(users) = 1

\* C4: a POST /register of an unregistered email with a password and a name
\* creates the user, and every later POST /login with that email and that
\* password redirects home with the session resolving to that user.
C4_RegisterThenAuthenticate ==
    [][ \A e \in Emails, p \in Passwords :
          /\ e \notin DOMAIN registered =>
                \A n \in DisplayNames :
                    register("POST", e, p, n, Salts) =>
                        /\ e \in DOMAIN registered'
                        /\ registered'[e] = p
                        /\ \E u \in users' : u.email = e
          /\ (/\ e \in DOMAIN registered
              /\ registered[e] = p
              /\ login("POST", e, p)) =>
                 /\ resp' = Redirect("home")
                 /\ \E u \in users : u.email = e /\ session' = u.id /\ CurrentUser' = {u}
      ]_vars

C4_Witness ==
    /\ Cardinality(users) = 2
    /\ session = 1
    /\ resp = Redirect("home")
    /\ \E u \in users : u.id = 1 /\ u.password.salt = "saltB"

\* C5: a POST /login with the email of an existing user and a password other
\* than the registered one leaves the session as it was and redirects to the
\* login view with the password notice, which is not the unknown-email notice.
C5_WrongPasswordRejected ==
    [][ \A e \in Emails, p \in Passwords :
          (/\ e \in DOMAIN registered
           /\ registered[e] # p
           /\ login("POST", e, p)) =>
              /\ session' = session
              /\ resp' = RedirectFlash("login", PasswordFlash)
              /\ resp'.flash # UnknownEmailFlash
      ]_vars

C5_Witness ==
    /\ resp = RedirectFlash("login", PasswordFlash)
    /\ session # Null

\* C6: an advance or a delete of an id no task has answers 404 and leaves
\* every task and every user unchanged.
C6_MissingTaskNotFound ==
    [][ \A m \in Methods, i \in TaskIds :
          ((update_task(m, i) \/ delete_task(i)) /\ TaskById(i) = {}) =>
              /\ resp'.status = 404
              /\ tasks' = tasks
              /\ users' = users
      ]_vars

\* C7: the task board lists every task of the store exactly once, by owner
\* identifier ascending, tasks of one owner in the order of their creation.
C7_BoardOrderedByOwnerThenCreation ==
    resp.body = "index.html" =>
        /\ Len(resp.tasks) = Len(tasks)
        /\ Range(resp.tasks) = Range(tasks)
        /\ \A i, j \in 1..Len(resp.tasks) :
             i < j =>
                \/ resp.tasks[i].owner_id < resp.tasks[j].owner_id
                \/ /\ resp.tasks[i].owner_id = resp.tasks[j].owner_id
                   /\ resp.tasks[i].id < resp.tasks[j].id

\* C8: a successful register or login makes the session resolve to that
\* user, a logout makes it anonymous, and the session's identity changes in
\* no other request: not in a failed register or login, not in a task request.
C8_SessionFollowsLastLogin ==
    [][ /\ resp' = Redirect("home") =>
             \A e \in Emails, p \in Passwords :
                /\ login("POST", e, p) => session' = UserIdOf(e, users')
                /\ \A n \in DisplayNames :
                     register("POST", e, p, n, Salts) => session' = UserIdOf(e, users')
        /\ logout => session' = Null
        /\ session' # session =>
             \/ logout
             \/ /\ resp' = Redirect("home")
                /\ \E e \in Emails, p \in Passwords :
                     \/ login("POST", e, p)
                     \/ \E n \in DisplayNames : register("POST", e, p, n, Salts)
        /\ CurrentUser' = {u \in users' : u.id = session'}
        /\ session' # Null => CurrentUser' # {}
      ]_vars

C8_Witness ==
    /\ Cardinality(users) = 2
    /\ session = Null
    /\ resp = RedirectFlash("login", PasswordFlash)

\* C9: every task whose owner is set is owned by a user of the store.
C9_OwnerReferencesUser ==
    \A t \in Range(tasks) :
        t.owner_id # Null => \E u \in users : u.id = t.owner_id

C9_Witness ==
    /\ Len(tasks) = 2
    /\ tasks[1].owner_id # tasks[2].owner_id
    /\ tasks[1].owner_id # Null
    /\ tasks[2].owner_id # Null

\* C10: a POST /add without a logged-in user changes nothing in the store,
\* every task a request creates is owned by the session's user, and no task
\* has a null owner.
C10_AddNeedsLogin ==
    /\ [](\A t \in Range(tasks) : t.owner_id # Null)
    /\ [][ /\ \A n \in AnyField(TaskNames) :
                (CurrentUser = {} /\ add_task("POST", n)) =>
                    /\ tasks' = tasks
                    /\ users' = users
                    /\ task_id_seq' = task_id_seq
           /\ \A t \in Range(tasks') :
                t.id \notin TaskIdsInStore =>
                    /\ session # Null
                    /\ t.owner_id = session
         ]_vars

C10_Witness ==
    /\ resp = Fault(500, AnonymousHasNoId)
    /\ tasks # <<>>

====
